---- MODULE Spec2Model ----
(***************************************************************************)
(* Model of ihatemoney/forms.py: the form classes of a shared-expense      *)
(* tracker.  Texts are sequences of one-character strings.  The Project    *)
(* and Person tables are sequences of rows (the persistence layer is an    *)
(* external collaborator; no constraint of the store is assumed).          *)
(***************************************************************************)
EXTENDS Integers, Sequences, FiniteSets, TLC

(***************************************************************************)
(* Bounds of the model.                                                    *)
(***************************************************************************)
\* longest amount / weight text enumerated exhaustively
MaxLen == 3
\* longest invite text (in pieces) enumerated exhaustively
MaxPieces == 3
\* longest project identifier enumerated exhaustively
MaxIdLen == 2
\* rows the Project table may hold
MaxProjects == 2
\* rows the Person table may hold
MaxPersons == 3

(***************************************************************************)
(* Characters.                                                             *)
(***************************************************************************)
Digits == {"0", "1", "2", "3", "4", "5", "6", "7", "8", "9"}

DigitVal(c) ==
  CASE c = "0" -> 0 [] c = "1" -> 1 [] c = "2" -> 2 [] c = "3" -> 3
    [] c = "4" -> 4 [] c = "5" -> 5 [] c = "6" -> 6 [] c = "7" -> 7
    [] c = "8" -> 8 [] c = "9" -> 9

\* mutant of ReplaceComma: the replacement is forgotten
ReplaceComma_Identity(s) == s

\* str.replace(",", "."): every comma becomes a period
ReplaceComma(s) == [i \in 1..Len(s) |-> IF s[i] = "," THEN "." ELSE s[i]]

\* "**" in value
HasPow(s) == \E i \in 1..(Len(s) - 1) : s[i] = "*" /\ s[i + 1] = "*"

(***************************************************************************)
(* Python values.  A number is the rational n/d; f tells a float from an   *)
(* int and nz is the sign bit of a float zero.  A float is modelled by the *)
(* exact rational it approximates.  t = "str" is the text str() renders    *)
(* from the number, t = "none" is None, t = "empty" is ''.                 *)
(***************************************************************************)
Abs(x) == IF x < 0 THEN -x ELSE x

RECURSIVE GCD(_, _)
GCD(a, b) ==
  IF b = 0 THEN a ELSE CHOOSE g \in {GCD(b, m) : m \in {a % b}} : TRUE

Num(f, n, d, nz) ==
  CHOOSE v \in
    { [t |-> "num", f |-> f, n |-> m \div g, d |-> e \div g,
       nz |-> (f /\ m = 0 /\ nz)] :
        <<m, e, g>> \in {<<n, d, GCD(Abs(n), d)>>} } : TRUE

PyInt(n) == Num(FALSE, n, 1, FALSE)
PyNone == [t |-> "none", f |-> FALSE, n |-> 0, d |-> 1, nz |-> FALSE]
PyEmptyStr == [t |-> "empty", f |-> FALSE, n |-> 0, d |-> 1, nz |-> FALSE]

\* str(x) of a number: a string, no longer a number
PyStr(v) == [v EXCEPT !.t = "str"]

\* x == y of Python: a str never equals a number; 0 == 0.0 == -0.0
PyEq(a, b) ==
  IF a.t = "num" /\ b.t = "num" THEN a.n * b.d = b.n * a.d
  ELSE a.t = b.t /\ a = b

\* bool(x) as DataRequired uses it: `not field.data or not field.data.strip()`
PyTruthy(a) ==
  CASE a.t = "none" -> FALSE
    [] a.t = "empty" -> FALSE
    [] a.t = "str" -> TRUE
    [] OTHER -> a.n # 0

(***************************************************************************)
(* eval_arithmetic_expression (ihatemoney.utils): ast.parse(expr,          *)
(* mode="eval") walked with Add, Sub, Mult, Div and USub; anything else,   *)
(* a syntax error or a division by zero is a ValueError.                   *)
(***************************************************************************)
Fail == [ok |-> FALSE, v |-> PyNone, p |-> 0]
Ok(v, p) == [ok |-> TRUE, v |-> v, p |-> p]

\* first position at or after p that holds no space
SkipWs(s, p) ==
  CHOOSE q \in p..(Len(s) + 1) :
    /\ q > Len(s) \/ s[q] # " "
    /\ \A r \in p..(q - 1) : s[r] = " "

\* first position at or after p that holds no digit
DigitsEnd(s, p) ==
  CHOOSE q \in p..(Len(s) + 1) :
    /\ q > Len(s) \/ s[q] \notin Digits
    /\ \A r \in p..(q - 1) : s[r] \in Digits

RECURSIVE DigitsValue(_, _, _)
\* value of the digits s[p..q-1]
DigitsValue(s, p, q) ==
  IF q <= p THEN 0 ELSE 10 * DigitsValue(s, p, q - 1) + DigitVal(s[q - 1])

RECURSIVE Pow10(_)
Pow10(k) == IF k = 0 THEN 1 ELSE 10 * Pow10(k - 1)

\* a number literal at p: digits, digits "." digits, "." digits;
\* an integer literal with a leading zero must be all zeros
ParseNumber(s, p) ==
  CHOOSE res \in
    { IF q <= Len(s) /\ s[q] = "."
      THEN CHOOSE fl \in
             { IF (q - p) + (r - (q + 1)) = 0 THEN Fail
               ELSE Ok(Num(TRUE,
                           DigitsValue(s, p, q) * Pow10(r - (q + 1))
                             + DigitsValue(s, q + 1, r),
                           Pow10(r - (q + 1)), FALSE), r) :
                 r \in {DigitsEnd(s, q + 1)} } : TRUE
      ELSE IF q = p THEN Fail
      ELSE IF q - p > 1 /\ s[p] = "0" /\ DigitsValue(s, p, q) # 0 THEN Fail
      ELSE Ok(PyInt(DigitsValue(s, p, q)), q) :
        q \in {DigitsEnd(s, p)} } : TRUE

\* operator.neg
Neg(a) == Num(a.f, -a.n, a.d, (a.n = 0 /\ ~a.nz))

\* operator.add / sub / mul / truediv; a division by zero fails
Add(a, b) ==
  Num(a.f \/ b.f, a.n * b.d + b.n * a.d, a.d * b.d,
      (a.f /\ a.n = 0 /\ a.nz) /\ (b.f /\ b.n = 0 /\ b.nz))

Sub(a, b) ==
  Num(a.f \/ b.f, a.n * b.d - b.n * a.d, a.d * b.d,
      (a.f /\ a.n = 0 /\ a.nz) /\ (b.f /\ b.n = 0 /\ ~b.nz))

Sign(a) == (a.n < 0) \/ (a.n = 0 /\ a.nz)

Mul(a, b) ==
  Num(a.f \/ b.f, a.n * b.n, a.d * b.d, Sign(a) # Sign(b))

BinOp(op, a, b) ==
  CASE op = "+" -> [ok |-> TRUE, v |-> Add(a, b)]
    [] op = "-" -> [ok |-> TRUE, v |-> Sub(a, b)]
    [] op = "*" -> [ok |-> TRUE, v |-> Mul(a, b)]
    [] op = "/" ->
         IF b.n = 0 THEN [ok |-> FALSE, v |-> PyNone]
         ELSE [ok |-> TRUE,
               v |-> Num(TRUE,
                         (IF b.n < 0 THEN -1 ELSE 1) * a.n * b.d,
                         a.d * Abs(b.n), Sign(a) # Sign(b))]

RECURSIVE ParseExpr(_, _)
RECURSIVE ExprRest(_, _, _)
RECURSIVE ParseTerm(_, _)
RECURSIVE TermRest(_, _, _)
RECURSIVE ParseFactor(_, _)

\* Every intermediate result is bound once (x \in {e}) before it is taken
\* apart.

\* factor: "-" factor | "(" expr ")" | number  (a unary "+" is not supported)
ParseFactor(s, p0) ==
  CHOOSE res \in
    { IF p > Len(s) THEN Fail
      ELSE IF s[p] = "-"
        THEN CHOOSE neg \in
               { IF r.ok THEN Ok(Neg(r.v), r.p) ELSE Fail :
                   r \in {ParseFactor(s, p + 1)} } : TRUE
      ELSE IF s[p] = "("
        THEN CHOOSE par \in
               { CHOOSE closed \in
                   { IF r.ok /\ q <= Len(s) /\ s[q] = ")" THEN Ok(r.v, q + 1)
                     ELSE Fail :
                       q \in {IF r.ok THEN SkipWs(s, r.p) ELSE 0} } : TRUE :
                   r \in {ParseExpr(s, p + 1)} } : TRUE
      ELSE ParseNumber(s, p) :
        p \in {SkipWs(s, p0)} } : TRUE

\* term: factor (("*" | "/") factor)*
TermRest(s, acc, p0) ==
  CHOOSE res \in
    { IF p <= Len(s) /\ s[p] \in {"*", "/"}
      THEN CHOOSE next \in
             { CHOOSE applied \in
                 { IF b.ok THEN TermRest(s, b.v, r.p) ELSE Fail :
                     b \in {IF r.ok THEN BinOp(s[p], acc, r.v)
                            ELSE [ok |-> FALSE, v |-> PyNone]} } : TRUE :
                 r \in {ParseFactor(s, p + 1)} } : TRUE
      ELSE Ok(acc, p) :
        p \in {SkipWs(s, p0)} } : TRUE

ParseTerm(s, p) ==
  CHOOSE res \in
    { IF r.ok THEN TermRest(s, r.v, r.p) ELSE Fail :
        r \in {ParseFactor(s, p)} } : TRUE

\* expr: term (("+" | "-") term)*
ExprRest(s, acc, p0) ==
  CHOOSE res \in
    { IF p <= Len(s) /\ s[p] \in {"+", "-"}
      THEN CHOOSE next \in
             { CHOOSE applied \in
                 { IF b.ok THEN ExprRest(s, b.v, r.p) ELSE Fail :
                     b \in {IF r.ok THEN BinOp(s[p], acc, r.v)
                            ELSE [ok |-> FALSE, v |-> PyNone]} } : TRUE :
                 r \in {ParseTerm(s, p + 1)} } : TRUE
      ELSE Ok(acc, p) :
        p \in {SkipWs(s, p0)} } : TRUE

ParseExpr(s, p) ==
  CHOOSE res \in
    { IF r.ok THEN ExprRest(s, r.v, r.p) ELSE Fail :
        r \in {ParseTerm(s, p)} } : TRUE

\* the whole text must be one expression; a leading space is an
\* IndentationError and one trailing newline ends the input
eval_arithmetic_expression(expr) ==
  CHOOSE res \in
    { IF Len(body) > 0 /\ body[1] = " " THEN Fail
      ELSE CHOOSE whole \in
             { IF r.ok /\ r.p = Len(body) + 1 THEN Ok(r.v, r.p) ELSE Fail :
                 r \in {ParseExpr(body, 1)} } : TRUE :
        body \in {IF Len(expr) > 0 /\ expr[Len(expr)] = "\n"
                  THEN SubSeq(expr, 1, Len(expr) - 1) ELSE expr} } : TRUE

(***************************************************************************)
(* State.                                                                  *)
(***************************************************************************)
VARIABLES
  amount,         \* BillForm.amount after the last bill submission
  weight,         \* MemberForm.weight after the last weight submission
  projects,       \* the Project table, a sequence of rows
  project,        \* the Project object a request works on (g.project)
  pform,          \* the project form of the last project request
  loggingDefault, \* LoggingMode.default()
  persons,        \* the Person table, a sequence of rows
  mform,          \* the MemberForm of the last member request
  invite,         \* the InviteForm of the last invite request
  clients         \* two requests in flight, each between validate and save

vars == <<amount, weight, projects, project, pform, loggingDefault, persons,
          mform, invite, clients>>

Range(s) == {s[i] : i \in 1..Len(s)}

SeqsUpTo(A, n) == UNION {[1..k -> A] : k \in 0..n}

(***************************************************************************)
(* Amount field of the bill form.                                          *)
(***************************************************************************)
\* {0,200} of the pattern
MaxAmountLen == 200

AllowedChars == Digits \cup {" ", ".", "+", "-", "*", "/", "(", ")"}

\* match(r"^[ 0-9\.\+\-\*/\(\)]{0,200}$", value): "$" matches at the end of
\* the text and also just before a newline that ends the text
RegexMatch(value) ==
  LET n == Len(value)
      body == IF n > 0 /\ value[n] = "\n" THEN SubSeq(value, 1, n - 1)
              ELSE value
  IN  Len(body) <= MaxAmountLen /\ \A i \in 1..Len(body) : body[i] \in AllowedChars

NotValidAmount == "Not a valid amount or expression."
FieldRequired == "This field is required."
BillsCantBeNull == "Bills can't be null"

\* CalculatorStringField.process_formdata, then StringField.process_formdata
CalculatorStringField_process_formdata(valuelist) ==
  IF valuelist = <<>>
  THEN [data |-> PyEmptyStr, raised |-> FALSE, evaluated |-> FALSE]
  ELSE CHOOSE res \in
         { IF ~RegexMatch(value) \/ HasPow(value)
           THEN [data |-> PyNone, raised |-> TRUE, evaluated |-> FALSE]
           ELSE CHOOSE stored \in
                  { IF r.ok
                    THEN [data |-> PyStr(r.v), raised |-> FALSE,
                          evaluated |-> TRUE]
                    ELSE [data |-> PyNone, raised |-> TRUE,
                          evaluated |-> TRUE] :
                      r \in {eval_arithmetic_expression(value)} } : TRUE :
             value \in {ReplaceComma(valuelist[1])} } : TRUE

\* BillForm.validate_amount: field.data == 0
validate_amount(data) == PyEq(data, PyInt(0))

\* validation of the amount field: the process errors, then DataRequired
\* (which replaces the errors and stops the chain), then validate_amount
BillForm_validate_amount_field(data, raised) ==
  LET process_errors == IF raised THEN <<NotValidAmount>> ELSE <<>>
  IN  IF ~PyTruthy(data) THEN <<FieldRequired>>
      ELSE IF validate_amount(data) THEN Append(process_errors, BillsCantBeNull)
      ELSE process_errors

AmountAlphabet ==
  {"0", "1", ",", ".", "-", "*", "/", "(", ")", " ", "\n", "a"}

\* "1" followed by n - 1 spaces
Padded(n) == [i \in 1..n |-> IF i = 1 THEN "1" ELSE " "]

SampleAmounts ==
  { <<"2", "-", "2">>, <<"(", "1", "-", "1", ")", "*", "5">>,
    <<"2", "*", "*", "3">>, <<"1", "+", "1">>, <<"+", "1">>,
    <<"1", ",", "5">>, <<"1", ".", "5">>,
    <<"1", ",", "5", "+", "2", ".", "5">>, <<"0", ",", "0", "\n">>,
    <<"5", "/", "(", "2", "-", "2", ")">>, <<"0", "*", "-", "1", ",", "5">>,
    Padded(MaxAmountLen), Padded(MaxAmountLen + 1),
    Padded(MaxAmountLen) \o <<"\n">> }

AmountTexts == SeqsUpTo(AmountAlphabet, MaxLen) \cup SampleAmounts

AmountInit ==
  [raw |-> <<>>, data |-> PyNone, raised |-> FALSE, evaluated |-> FALSE,
   errors |-> <<>>, submitted |-> FALSE]

(***************************************************************************)
(* Weight field of the member form.                                        *)
(***************************************************************************)
DecNone == [t |-> "none", neg |-> FALSE, coef |-> 0, exp |-> 0]
Dec(neg, coef, exp) == [t |-> "dec", neg |-> neg, coef |-> coef, exp |-> exp]

Whitespace == {" ", "\n"}

\* str.strip()
Strip(s) ==
  LET keep == {i \in 1..Len(s) : s[i] \notin Whitespace}
  IN  IF keep = {} THEN <<>>
      ELSE SubSeq(s, CHOOSE i \in keep : \A j \in keep : i <= j,
                     CHOOSE i \in keep : \A j \in keep : i >= j)

\* decimal.Decimal(text): surrounding whitespace dropped, an optional sign,
\* then digits, digits "." digits or "." digits; the value keeps its sign
\* and its number of fractional digits
Decimal(text) ==
  LET s == Strip(text)
      signed == Len(s) > 0 /\ s[1] \in {"-", "+"}
      p == IF signed THEN 2 ELSE 1
      q == DigitsEnd(s, p)
      dot == q <= Len(s) /\ s[q] = "."
      r == IF dot THEN DigitsEnd(s, q + 1) ELSE q
      nfrac == IF dot THEN r - (q + 1) ELSE 0
  IN  IF r # Len(s) + 1 \/ (q - p) + nfrac = 0 THEN DecNone
      ELSE Dec(signed /\ s[1] = "-",
               DigitsValue(s, p, q) * Pow10(nfrac)
                 + (IF dot THEN DigitsValue(s, q + 1, r) ELSE 0),
               nfrac)

NotValidDecimal == "Not a valid decimal value"
WeightsPositive == "Weights should be positive"

\* CommaDecimalField.process_formdata, then DecimalField.process_formdata;
\* without a submitted value the field keeps its default, 1
CommaDecimalField_process_formdata(value) ==
  IF value = <<>> THEN [data |-> Dec(FALSE, 1, 0), raised |-> FALSE]
  ELSE LET d == Decimal(ReplaceComma(value[1]))
       IN  [data |-> d, raised |-> (d.t = "none")]

\* NumberRange(min=0.1): the float 0.1 lies just above 1/10, so data < 0.1
\* holds for every decimal up to and including 1/10
NumberRange_fails(data) ==
  \/ data.t = "none"
  \/ (IF data.neg THEN -1 ELSE 1) * data.coef * 10 <= Pow10(data.exp)

WeightAlphabet == {"0", "1", "5", ",", ".", "-", " ", "a"}

WeightTexts == SeqsUpTo(WeightAlphabet, MaxLen)

WeightInit ==
  [raw |-> <<>>, data |-> DecNone, raised |-> FALSE, errors |-> <<>>,
   submitted |-> FALSE]

\* a bill submission on a freshly built form: the amount field is processed
\* and validated
BillSubmit(valuelist) ==
  /\ ~amount.submitted /\ ~weight.submitted
  /\ \E r \in {CalculatorStringField_process_formdata(valuelist)} :
       amount' = [raw |-> valuelist, data |-> r.data, raised |-> r.raised,
                  evaluated |-> r.evaluated,
                  errors |-> BillForm_validate_amount_field(r.data, r.raised),
                  submitted |-> TRUE]
  /\ UNCHANGED <<weight, projects, project, pform, loggingDefault, persons,
                 mform, invite, clients>>

\* a member submission on a freshly built form, as far as the weight field
\* goes
WeightSubmit(value) ==
  LET r == CommaDecimalField_process_formdata(value)
      process_errors == IF r.raised THEN <<NotValidDecimal>> ELSE <<>>
  IN  /\ ~amount.submitted /\ ~weight.submitted
      /\ weight' = [raw |-> value, data |-> r.data, raised |-> r.raised,
                    errors |-> IF NumberRange_fails(r.data)
                               THEN Append(process_errors, WeightsPositive)
                               ELSE process_errors,
                    submitted |-> TRUE]
      /\ UNCHANGED <<amount, projects, project, pform, loggingDefault, persons, mform,
                     invite, clients>>

(***************************************************************************)
(* Project forms.  A project is modelled by its id, its password hash and  *)
(* its logging preference; name, contact email and default currency are    *)
(* plain copies of form fields and are left out.                           *)
(***************************************************************************)
LowerLetters == {"a", "b", "d", "h", "o", "r", "s"}
UpperLetters == {"A", "D"}
WordChars == LowerLetters \cup UpperLetters \cup Digits \cup {"_"}

\* str.lower() of one character
Lower(c) == CASE c = "A" -> "a" [] c = "D" -> "d" [] OTHER -> c

IsSlugChar(c) == c \in WordChars \cup Whitespace \cup {"-"}

RECURSIVE Hyphenate(_)
\* re.sub(r"[-\s]+", "-", value): every run of hyphens and whitespace
\* becomes one hyphen
Hyphenate(s) ==
  IF s = <<>> THEN <<>>
  ELSE IF Head(s) \in Whitespace \cup {"-"}
       THEN LET rest == Hyphenate(Tail(s))
            IN  IF Len(s) > 1 /\ s[2] \in Whitespace \cup {"-"} THEN rest
                ELSE <<"-">> \o rest
       ELSE <<Head(s)>> \o Hyphenate(Tail(s))

\* slugify (ihatemoney.utils): characters other than word characters,
\* whitespace and hyphens are removed, the text is stripped and lowercased,
\* and runs of hyphens and whitespace become one hyphen
slugify(value) ==
  LET kept == Strip(SelectSeq(value, IsSlugChar))
  IN  Hyphenate([i \in 1..Len(kept) |-> Lower(kept[i])])

Dashboard == <<"d", "a", "s", "h", "b", "o", "a", "r", "d">>

Salts == {1, 2}
Passwords == {"pw1", "pw2"}

\* werkzeug generate_password_hash: the hash carries a random salt and the
\* digest of salt and password
generate_password_hash(password, salt) ==
  [salt |-> salt, digest |-> <<salt, password>>]

\* werkzeug check_password_hash: the digest is recomputed with the stored salt
check_password_hash(pwhash, password) ==
  pwhash.digest = <<pwhash.salt, password>>

LoggingModes == {"DISABLED", "ENABLED", "RECORD_IP"}

\* mutant of logging_preference: the IP toggle is looked at first
logging_preference_IpFirst(form) ==
  IF form.ip_recording THEN "RECORD_IP"
  ELSE IF form.project_history THEN "ENABLED"
  ELSE "DISABLED"

\* EditProjectForm.logging_preference
logging_preference(form) ==
  IF ~form.project_history THEN "DISABLED"
  ELSE IF form.ip_recording THEN "RECORD_IP"
  ELSE "ENABLED"

NoProject == [id |-> <<"?">>, password |-> generate_password_hash("", 0),
              logging_preference |-> "NONE"]

\* EditProjectForm.save: the Project built from the form
EditProjectForm_save(form, salt) ==
  [id |-> form.id_data,
   password |-> generate_password_hash(form.password, salt),
   logging_preference |-> logging_preference(form)]

\* ProjectForm.save: both toggles are first set from LoggingMode.default()
ProjectForm_toggles(form) ==
  [form EXCEPT !.project_history = (loggingDefault # "DISABLED"),
               !.ip_recording = (loggingDefault = "RECORD_IP")]

ProjectForm_save(form, salt) == EditProjectForm_save(ProjectForm_toggles(form), salt)

\* mutant of EditProjectForm_update: the password is rehashed on every update
EditProjectForm_update_Always(form, proj, salt) ==
  [proj EXCEPT
     !.password = generate_password_hash(form.password, salt),
     !.logging_preference =
        IF ~form.project_history THEN "DISABLED"
        ELSE IF form.ip_recording THEN "RECORD_IP" ELSE "ENABLED"]

\* EditProjectForm.update
EditProjectForm_update(form, proj, salt) ==
  [proj EXCEPT
     !.password = IF ~check_password_hash(proj.password, form.password)
                  THEN generate_password_hash(form.password, salt)
                  ELSE proj.password,
     !.logging_preference = logging_preference(form)]

\* Project.query.get(id)
Project_query_get(table, id) == \E i \in 1..Len(table) : table[i].id = id

\* mutant of validate_id: the table is asked for the identifier as typed
validate_id_RawLookup(table, raw) ==
  [id_data |-> slugify(raw),
   error |-> (slugify(raw) = Dashboard \/ Project_query_get(table, raw))]

\* ProjectForm.validate_id: form.id.data becomes the slug; the reserved word
\* and the id of a stored project are refused
validate_id(table, raw) ==
  LET slug == slugify(raw)
  IN  [id_data |-> slug,
       error |-> (slug = Dashboard \/ Project_query_get(table, slug))]

\* DataRequired, then validate_id: a blank identifier stops the chain
ProjectForm_validate(table, raw) ==
  IF Strip(raw) = <<>> THEN [id_data |-> raw, error |-> TRUE, required |-> TRUE]
  ELSE LET v == validate_id(table, raw)
       IN  [id_data |-> v.id_data, error |-> v.error, required |-> FALSE]

IdAlphabet == {"a", "A", " "}

SampleIds ==
  { Dashboard,
    <<"D", "a", "s", "h", "b", "o", "a", "r", "d">>,
    <<" ", "d", "a", "s", "h", "b", "o", "a", "r", "d", "!">>,
    <<"d", "a", "s", "h", " ", "b", "o", "a", "r", "d">>,
    <<"a", "!", "a">>,
    <<"-", "a", "-", " ", "A">>,
    <<"!">> }

RawIds == SeqsUpTo(IdAlphabet, MaxIdLen) \cup SampleIds

PFormInit ==
  [op |-> "none", id_raw |-> <<>>, id_data |-> <<>>, password |-> "",
   submitted_history |-> FALSE, submitted_ip |-> FALSE,
   project_history |-> FALSE, ip_recording |-> FALSE, error |-> FALSE,
   password_verified |-> FALSE]

PForm(op, raw, password, hist, ip) ==
  [op |-> op, id_raw |-> raw, id_data |-> raw, password |-> password,
   submitted_history |-> hist, submitted_ip |-> ip,
   project_history |-> hist, ip_recording |-> ip, error |-> FALSE,
   password_verified |-> FALSE]

\* the password and the salt of a request that goes through the table
CreatePasswords == {"pw1"}
CreateSalts == {1}

\* a create-project request: the form is validated and, when it is valid,
\* saved and the new project is added to the table; the request carries no
\* value for the two toggles
CreateProject(raw, password, salt) ==
  LET form == PForm("create", raw, password, FALSE, FALSE)
      v == ProjectForm_validate(projects, raw)
      checked == [form EXCEPT !.id_data = v.id_data, !.error = v.error]
  IN  /\ v.error \/ Len(projects) < MaxProjects
      /\ IF v.error
         THEN /\ pform' = checked
              /\ projects' = projects
         ELSE /\ pform' = ProjectForm_toggles(checked)
              /\ projects' = Append(projects, ProjectForm_save(checked, salt))
      /\ UNCHANGED <<amount, weight, project, loggingDefault, persons, mform,
                     invite, clients>>

Slugs == {<<"a">>, <<"a", "-", "a">>}

\* ProjectForm.save of a validated form: the project it returns
ProjectSave(id, password, hist, ip, salt) ==
  LET form == [PForm("save", id, password, hist, ip) EXCEPT !.id_data = id]
  IN  /\ pform' = ProjectForm_toggles(form)
      /\ project' = ProjectForm_save(form, salt)
      /\ UNCHANGED <<amount, weight, projects, loggingDefault, persons, mform,
                     invite, clients>>

\* an edit-project request on the project of the session
ProjectUpdate(password, hist, ip, salt) ==
  LET form == [PForm("update", <<>>, password, hist, ip)
                 EXCEPT !.password_verified =
                          check_password_hash(project.password, password)]
  IN  /\ project # NoProject
      /\ pform' = form
      /\ project' = EditProjectForm_update(form, project, salt)
      /\ UNCHANGED <<amount, weight, projects, loggingDefault, persons, mform,
                     invite, clients>>

(***************************************************************************)
(* Member form.  A person is modelled by name, project and activated flag. *)
(***************************************************************************)
\* strip_filter
strip_filter(string) == Strip(string)

\* MemberForm.name has no default: the placeholder is None, which no
\* submitted text equals
NameDefault == <<"None">>

\* mutant of ActiveNamesakes: the activated filter is dropped
ActiveNamesakes_Any(table, proj, name) ==
  {i \in 1..Len(table) : table[i].name = name /\ table[i].project = proj}

\* Person.query.filter(name == ..., project == ..., activated == True).all()
ActiveNamesakes(table, proj, name) ==
  {i \in 1..Len(table) : /\ table[i].name = name
                         /\ table[i].project = proj
                         /\ table[i].activated}

\* MemberForm.validate_name: "" when the name passes, else the error
validate_name(table, proj, edit, data) ==
  IF data = NameDefault THEN "incorrect"
  ELSE IF ~edit /\ ActiveNamesakes(table, proj, data) # {} THEN "duplicate"
  ELSE ""

\* the name field: strip_filter, DataRequired, then validate_name
MemberForm_validate(table, proj, edit, raw) ==
  LET data == strip_filter(raw)
  IN  [name_data |-> data,
       error |-> IF data = <<>> THEN "required"
                 ELSE validate_name(table, proj, edit, data)]

\* MemberForm.save
MemberForm_save(proj, person, form) ==
  [person EXCEPT !.name = form.name_data, !.project = proj]

\* Person(): a new person is activated and bound to nothing yet
NewPerson == [name |-> <<>>, project |-> "", activated |-> TRUE]

MemberProjects == {"p1", "p2"}

RawNames ==
  { <<>>, <<" ">>, <<"a">>, <<" ", "a">>, <<"a", " ">>, <<"b">>, <<"b", "\n">> }

MFormInit ==
  [op |-> "none", edit |-> FALSE, project |-> "", raw |-> <<>>,
   name_data |-> <<>>, error |-> "", member |-> 0]

\* an add-member request: MemberForm(project), validate, save on a new Person
AddMember(proj, raw) ==
  LET v == MemberForm_validate(persons, proj, FALSE, raw)
  IN  /\ v.error # "" \/ Len(persons) < MaxPersons
      /\ mform' = [op |-> "add", edit |-> FALSE, project |-> proj, raw |-> raw,
                   name_data |-> v.name_data, error |-> v.error, member |-> 0]
      /\ persons' = IF v.error = ""
                    THEN Append(persons, MemberForm_save(proj, NewPerson, v))
                    ELSE persons
      /\ UNCHANGED <<amount, weight, projects, project, pform, loggingDefault,
                     invite, clients>>

\* an edit-member request: MemberForm(project, edit=True), validate, save on
\* the member being edited
EditMember(i, raw) ==
  LET proj == persons[i].project
      v == MemberForm_validate(persons, proj, TRUE, raw)
  IN  /\ mform' = [op |-> "edit", edit |-> TRUE, project |-> proj, raw |-> raw,
                   name_data |-> v.name_data, error |-> v.error, member |-> i]
      /\ persons' = IF v.error = ""
                    THEN [persons EXCEPT ![i] = MemberForm_save(proj, persons[i], v)]
                    ELSE persons
      /\ UNCHANGED <<amount, weight, projects, project, pform, loggingDefault,
                     invite, clients>>

\* a member is deactivated (soft-removed)
DeactivateMember(i) ==
  /\ persons[i].activated
  /\ persons' = [persons EXCEPT ![i].activated = FALSE]
  /\ mform' = [MFormInit EXCEPT !.op = "deactivate", !.member = i]
  /\ UNCHANGED <<amount, weight, projects, project, pform, loggingDefault,
                 invite, clients>>

(***************************************************************************)
(* Invite form.  A text is built from whole pieces; it is split, trimmed   *)
(* and validated character by character.                                   *)
(***************************************************************************)
RECURSIVE Split(_, _)
\* str.split(sep): the entries between the separators, empty ones included
Split(s, sep) ==
  LET hits == {i \in 1..Len(s) : s[i] = sep}
  IN  IF hits = {} THEN <<s>>
      ELSE LET k == CHOOSE i \in hits : \A j \in hits : i <= j
           IN  <<SubSeq(s, 1, k - 1)>> \o Split(SubSeq(s, k + 1, Len(s)), sep)

AtomChars == LowerLetters \cup {"c", "e", "i", "l", "m", "n", "t", "x", "y"} \cup Digits

\* a dot-separated part: non-empty labels of atom characters and hyphens
DotAtom(s, hyphenInside) ==
  LET labels == Split(s, ".")
  IN  \A k \in 1..Len(labels) :
        /\ labels[k] # <<>>
        /\ \A i \in 1..Len(labels[k]) : labels[k][i] \in AtomChars \cup {"-"}
        /\ hyphenInside =>
             labels[k][1] # "-" /\ labels[k][Len(labels[k])] # "-"

\* email_validator.validate_email, syntax only: one "@", a dot-atom local
\* part and a domain of at least two labels
validate_email(email) ==
  LET parts == Split(email, "@")
  IN  /\ Len(parts) = 2
      /\ DotAtom(parts[1], FALSE)
      /\ DotAtom(parts[2], TRUE)
      /\ Len(Split(parts[2], ".")) >= 2

\* [email.strip() for email in form.emails.data.split(",")]
InviteEntries(text) ==
  LET raw == Split(text, ",")
  IN  [k \in 1..Len(raw) |-> Strip(raw[k])]

RECURSIVE FirstRejected_Last(_)
\* mutant of FirstRejected: the loop runs on and the last bad entry is named
FirstRejected_Last(entries) ==
  IF entries = <<>> THEN [error |-> FALSE, email |-> <<>>]
  ELSE LET rest == FirstRejected_Last(Tail(entries))
       IN  IF rest.error THEN rest
           ELSE IF ~validate_email(Head(entries))
                THEN [error |-> TRUE, email |-> Head(entries)]
                ELSE rest

RECURSIVE FirstRejected(_)
\* the for loop of InviteForm.validate_emails: the first entry that raises
FirstRejected(entries) ==
  IF entries = <<>> THEN [error |-> FALSE, email |-> <<>>]
  ELSE IF ~validate_email(Head(entries))
       THEN [error |-> TRUE, email |-> Head(entries)]
       ELSE FirstRejected(Tail(entries))

\* InviteForm.validate_emails
validate_emails(text) == FirstRejected(InviteEntries(text))

AddrA == <<"a", "@", "x", ".", "c", "o", "m">>
AddrB == <<"b", "@", "y", ".", "c", "o", "m">>
NotAnEmail == <<"n", "o", "t", "-", "a", "n", "-", "e", "m", "a", "i", "l">>

InvitePieces == {AddrA, AddrB, NotAnEmail, <<",">>, <<" ">>}

RECURSIVE Flatten(_)
Flatten(ps) == IF ps = <<>> THEN <<>> ELSE Head(ps) \o Flatten(Tail(ps))

InviteTexts ==
  {Flatten(ps) : ps \in SeqsUpTo(InvitePieces, MaxPieces)}
    \cup {Flatten(<<AddrA, <<",">>, <<" ">>, NotAnEmail, <<",">>, <<" ">>, AddrB>>),
          Flatten(<<AddrA, <<",">>, AddrB, <<",">>, <<"x">>, <<",">>, NotAnEmail>>)}

InviteInit == [text |-> <<>>, error |-> FALSE, email |-> <<>>, submitted |-> FALSE]

\* an invite request on a freshly built form
InviteSubmit(text) ==
  LET r == validate_emails(text)
  IN  /\ ~invite.submitted
      /\ invite' = [text |-> text, error |-> r.error, email |-> r.email,
                    submitted |-> TRUE]
      /\ UNCHANGED <<amount, weight, projects, project, pform, loggingDefault,
                     persons, mform, clients>>

(***************************************************************************)
(* Two requests in flight.  A request validates against the table as it is *)
(* and saves in a later step; nothing in the module locks the table in     *)
(* between.                                                                *)
(***************************************************************************)
Clients == {1, 2}

RaceRawIds == { <<"a">>, <<"A", " ">>, <<"a", "a">> }

Idle == [pc |-> "idle", kind |-> "", key |-> <<>>, project |-> ""]

InFlight(kind) ==
  Cardinality({c \in Clients : clients[c].pc = "validated" /\ clients[c].kind = kind})

\* ProjectForm.validate() of one request
RaceValidateProject(c, raw) ==
  LET v == ProjectForm_validate(projects, raw)
  IN  /\ clients[c].pc = "idle"
      /\ Len(projects) + InFlight("project") < MaxProjects
      /\ clients' = [clients EXCEPT ![c] =
                       IF v.error THEN Idle
                       ELSE [pc |-> "validated", kind |-> "project",
                             key |-> v.id_data, project |-> ""]]
      /\ UNCHANGED <<amount, weight, projects, project, pform, loggingDefault,
                     persons, mform, invite>>

\* ProjectForm.save() of a validated request, and the row added to the table
RaceSaveProject(c, salt) ==
  LET form == [PForm("create", clients[c].key, "pw1", FALSE, FALSE)
                 EXCEPT !.id_data = clients[c].key]
  IN  /\ clients[c].pc = "validated"
      /\ clients[c].kind = "project"
      /\ projects' = Append(projects, ProjectForm_save(form, salt))
      /\ clients' = [clients EXCEPT ![c] = Idle]
      /\ UNCHANGED <<amount, weight, project, pform, loggingDefault, persons,
                     mform, invite>>

\* MemberForm(project).validate() of one request
RaceValidateMember(c, proj, raw) ==
  LET v == MemberForm_validate(persons, proj, FALSE, raw)
  IN  /\ clients[c].pc = "idle"
      /\ Len(persons) + InFlight("member") < MaxPersons
      /\ clients' = [clients EXCEPT ![c] =
                       IF v.error # "" THEN Idle
                       ELSE [pc |-> "validated", kind |-> "member",
                             key |-> v.name_data, project |-> proj]]
      /\ UNCHANGED <<amount, weight, projects, project, pform, loggingDefault,
                     persons, mform, invite>>

\* mutant of RaceSaveMember: the name is looked up again when saving and a
\* record is written only if it is still free
RaceSaveMember_Checked(c) ==
  /\ clients[c].pc = "validated"
  /\ clients[c].kind = "member"
  /\ persons' = IF \E i \in 1..Len(persons) :
                     /\ persons[i].name = clients[c].key
                     /\ persons[i].project = clients[c].project
                     /\ persons[i].activated
                THEN persons
                ELSE Append(persons,
                            [name |-> clients[c].key,
                             project |-> clients[c].project,
                             activated |-> TRUE])
  /\ clients' = [clients EXCEPT ![c] = Idle]
  /\ UNCHANGED <<amount, weight, projects, project, pform, loggingDefault,
                 mform, invite>>

\* MemberForm.save() of a validated request, and the row added to the table
RaceSaveMember(c) ==
  /\ clients[c].pc = "validated"
  /\ clients[c].kind = "member"
  /\ persons' = Append(persons,
                       MemberForm_save(clients[c].project, NewPerson,
                                       [name_data |-> clients[c].key]))
  /\ clients' = [clients EXCEPT ![c] = Idle]
  /\ UNCHANGED <<amount, weight, projects, project, pform, loggingDefault,
                 mform, invite>>

(***************************************************************************)
(* Specifications.                                                         *)
(***************************************************************************)
Init ==
  /\ amount = AmountInit
  /\ weight = WeightInit
  /\ projects = <<>>
  /\ project = NoProject
  /\ pform = PFormInit
  /\ loggingDefault \in LoggingModes
  /\ persons = <<>>
  /\ mform = MFormInit
  /\ invite = InviteInit
  /\ clients = [c \in Clients |-> Idle]

NextFields ==
  \/ BillSubmit(<<>>)
  \/ \E t \in AmountTexts : BillSubmit(<<t>>)
  \/ WeightSubmit(<<>>)
  \/ \E t \in WeightTexts : WeightSubmit(<<t>>)

NextCreate ==
  \E raw \in RawIds, password \in CreatePasswords, salt \in CreateSalts :
     CreateProject(raw, password, salt)

NextProject ==
  \/ \E id \in Slugs, password \in Passwords, hist \in BOOLEAN, ip \in BOOLEAN,
        salt \in Salts : ProjectSave(id, password, hist, ip, salt)
  \/ \E password \in Passwords, hist \in BOOLEAN, ip \in BOOLEAN,
        salt \in Salts : ProjectUpdate(password, hist, ip, salt)

NextMember ==
  \/ \E proj \in MemberProjects, raw \in RawNames : AddMember(proj, raw)
  \/ \E i \in 1..Len(persons), raw \in RawNames : EditMember(i, raw)
  \/ \E i \in 1..Len(persons) : DeactivateMember(i)

NextInvite == \E text \in InviteTexts : InviteSubmit(text)

NextRace ==
  \/ \E c \in Clients, raw \in RaceRawIds : RaceValidateProject(c, raw)
  \/ \E c \in Clients, salt \in CreateSalts : RaceSaveProject(c, salt)
  \/ \E c \in Clients, proj \in MemberProjects, raw \in RawNames :
       RaceValidateMember(c, proj, raw)
  \/ \E c \in Clients : RaceSaveMember(c)

\* the forms that never read the logging default run with it pinned
InitPinned == Init /\ loggingDefault = "ENABLED"

SpecFields == InitPinned /\ [][NextFields]_vars
SpecCreate == Init /\ [][NextCreate]_vars
SpecProject == Init /\ [][NextProject]_vars
SpecMember == InitPinned /\ [][NextMember]_vars
SpecInvite == InitPinned /\ [][NextInvite]_vars
SpecRace == Init /\ [][NextRace]_vars

Next ==
  \/ NextFields
  \/ NextCreate
  \/ NextProject
  \/ NextMember
  \/ NextInvite

Spec == Init /\ [][Next]_vars

(***************************************************************************)
(* Properties.                                                             *)
(***************************************************************************)

\* C1: an amount text whose expression evaluates to exactly 0 fails
\* validation with "Bills can't be null" once process_formdata has stored
\* the evaluated result in the field.
C1_ZeroAmountRejected ==
  (amount.submitted /\ amount.data.t = "str" /\ amount.data.n = 0)
    => BillsCantBeNull \in Range(amount.errors)

\* C5: a text that (after the comma replacement) holds a character outside
\* the allowed ones, is longer than 200 characters or holds "**" is rejected
\* with a ValueError and never reaches the expression evaluator.
C5_GuardRejects ==
  (amount.submitted /\ amount.raw # <<>>) =>
    LET value == [i \in 1..Len(amount.raw[1]) |->
                    IF amount.raw[1][i] = "," THEN "." ELSE amount.raw[1][i]]
    IN  ( \/ \E i \in 1..Len(value) : value[i] \notin AllowedChars
          \/ Len(value) > MaxAmountLen
          \/ \E i \in 1..(Len(value) - 1) : value[i] = "*" /\ value[i + 1] = "*" )
          => (amount.raised /\ ~amount.evaluated)

\* the texts that differ from t only by "," written for "." or "." for ","
CommaVariants(t) ==
  LET seps == {i \in 1..Len(t) : t[i] \in {",", "."}}
  IN  {[i \in 1..Len(t) |-> IF i \in S THEN ","
                            ELSE IF i \in seps THEN "." ELSE t[i]] :
         S \in SUBSET seps}

\* C7: two texts that differ only by "," written in place of "." get the
\* same outcome from the amount field and from the weight field: the same
\* stored value, or a rejection of both.
C7_CommaLikePeriod ==
  /\ (amount.submitted /\ amount.raw # <<>>) =>
       \A u \in CommaVariants(amount.raw[1]) :
         LET r == CalculatorStringField_process_formdata(<<u>>)
         IN  r.raised = amount.raised /\ r.data = amount.data
  /\ (weight.submitted /\ weight.raw # <<>>) =>
       \A u \in CommaVariants(weight.raw[1]) :
         LET r == CommaDecimalField_process_formdata(<<u>>)
         IN  r.raised = weight.raised /\ r.data = weight.data

\* C7 witness: an amount written with a comma has been stored.
C7_CommaStored ==
  /\ amount.submitted
  /\ amount.raw = << <<"1", ",", "5">> >>
  /\ ~amount.raised
  /\ amount.data = PyStr(Num(TRUE, 3, 2, FALSE))

\* C2: an update that submits the password the stored hash was made from
\* leaves project.password as it was, and an update whose password does not
\* verify leaves a hash that the new password verifies against.
C2_RehashOnlyOnChange ==
  [][ (pform'.op = "update" /\ project # NoProject) =>
        IF project.password.digest = <<project.password.salt, pform'.password>>
        THEN project'.password = project.password
        ELSE /\ project'.password # project.password
             /\ project'.password.digest
                  = <<project'.password.salt, pform'.password>> ]_vars

\* C2 witness: an update resubmitted the unchanged password.
C2_Resubmitted ==
  /\ pform.op = "update"
  /\ pform.password_verified
  /\ check_password_hash(project.password, pform.password)

\* the preference two toggle values select
C8_Selected(history, ip) ==
  CASE ~history -> "DISABLED"
    [] history /\ ~ip -> "ENABLED"
    [] history /\ ip -> "RECORD_IP"

\* C8 as stated: the preference a project form writes is the one selected by
\* the two toggles of the submission.
C8_SubmittedTogglesSelect ==
  pform.op \in {"save", "update"} =>
    project.logging_preference
      = C8_Selected(pform.submitted_history, pform.submitted_ip)

\* C8 amended: update writes the preference selected by the two submitted
\* toggles; ProjectForm.save first overwrites both toggles from
\* LoggingMode.default() and writes that default mode whatever was
\* submitted; the preference written is always the one selected by the
\* toggle values the form holds when it writes, and never RECORD_IP while
\* the history toggle is off.
C8_FormTogglesSelect ==
  /\ pform.op = "update" =>
       project.logging_preference
         = C8_Selected(pform.submitted_history, pform.submitted_ip)
  /\ pform.op = "save" => project.logging_preference = loggingDefault
  /\ pform.op \in {"save", "update"} =>
       /\ project.logging_preference
            = C8_Selected(pform.project_history, pform.ip_recording)
       /\ project.logging_preference = "RECORD_IP" => pform.project_history

\* C8 witness: a save whose submitted toggles were overwritten.
C8_Overwritten ==
  /\ pform.op = "save"
  /\ pform.submitted_ip /\ ~pform.submitted_history
  /\ pform.project_history
  /\ project.logging_preference = loggingDefault

NoTwoShareId(table) ==
  \A i, j \in 1..Len(table) : table[i].id = table[j].id => i = j

\* C4: validate_id fails when the slugified identifier is "dashboard" or the
\* id of a stored project and passes otherwise, form.id.data is the slug,
\* a passing creation stores a project with that id, a failing one stores
\* nothing, and no two stored projects share an id.
C4_UniqueSlug ==
  [][ (pform'.op = "create" /\ Strip(pform'.id_raw) # <<>>) =>
        LET slug == slugify(pform'.id_raw)
            taken == \/ slug = Dashboard
                     \/ \E i \in 1..Len(projects) : projects[i].id = slug
        IN  /\ pform'.error = taken
            /\ pform'.id_data = slug
            /\ taken => projects' = projects
            /\ ~taken => /\ Len(projects') = Len(projects) + 1
                         /\ projects'[Len(projects')].id = slug
                         /\ SubSeq(projects', 1, Len(projects)) = projects
            /\ NoTwoShareId(projects') ]_vars

\* C4 witness: a second creation of an id already created, written
\* differently, has failed.
C4_SecondCreationFailed ==
  /\ pform.op = "create"
  /\ pform.error
  /\ pform.id_raw # pform.id_data
  /\ \E i \in 1..Len(projects) : projects[i].id = pform.id_data

\* C3: for a name other than the placeholder, validate_name raises the
\* duplicate error exactly when the form is not in edit mode and the same
\* project has an activated member with the trimmed name.
C3_DuplicateIffActive ==
  [][ (mform'.op \in {"add", "edit"} /\ mform'.name_data # NameDefault) =>
        ( mform'.error = "duplicate"
            <=> /\ ~mform'.edit
                /\ \E i \in 1..Len(persons) :
                     /\ persons[i].activated
                     /\ persons[i].project = mform'.project
                     /\ persons[i].name = Strip(mform'.raw) ) ]_vars

\* C3 witness: a name held only by a deactivated member has been added.
C3_AddedAfterDeactivation ==
  /\ mform.op = "add"
  /\ mform.error = ""
  /\ \E i \in 1..(Len(persons) - 1) :
       /\ ~persons[i].activated
       /\ persons[i].name = mform.name_data
       /\ persons[i].project = mform.project

\* C10: no two activated members of the same project have the same name.
C10_UniqueActiveNames ==
  \A i, j \in 1..Len(persons) :
    ( /\ persons[i].activated /\ persons[j].activated
      /\ persons[i].project = persons[j].project
      /\ persons[i].name = persons[j].name ) => i = j

\* C6: validation fails exactly when some entry is not a valid address, and
\* the error names the first invalid entry from the left.
C6_FirstInvalidNamed ==
  invite.submitted =>
    LET entries == InviteEntries(invite.text)
        bad == {k \in 1..Len(entries) : ~validate_email(entries[k])}
    IN  /\ invite.error <=> bad # {}
        /\ bad # {} =>
             \E k \in bad : /\ \A j \in bad : k <= j
                            /\ invite.email = entries[k]

\* C6 witness: "a@x.com, not-an-email, b@y.com" was refused for its second
\* entry.
C6_SecondEntryNamed ==
  /\ invite.submitted
  /\ invite.text = Flatten(<<AddrA, <<",">>, <<" ">>, NotAnEmail, <<",">>,
                             <<" ">>, AddrB>>)
  /\ invite.error
  /\ invite.email = NotAnEmail

\* C9: nothing stands between a passed validation and its save: the save of
\* a validated request adds its record whatever the table holds by then, so
\* two requests that validated the same new key both write it.
C9_SaveUnchecked ==
  [][ \A c \in Clients :
        (clients[c].pc = "validated" /\ clients'[c].pc = "idle") =>
          IF clients[c].kind = "project"
          THEN /\ Len(projects') = Len(projects) + 1
               /\ SubSeq(projects', 1, Len(projects)) = projects
               /\ projects'[Len(projects')].id = clients[c].key
          ELSE /\ Len(persons') = Len(persons) + 1
               /\ SubSeq(persons', 1, Len(persons)) = persons
               /\ persons'[Len(persons')].name = clients[c].key
               /\ persons'[Len(persons')].project = clients[c].project
               /\ persons'[Len(persons')].activated ]_vars

\* C9 witness: both tables hold two records with the same key, each written
\* by a request whose validation had passed.
C9_BothWritten ==
  /\ \E i, j \in 1..Len(projects) : i # j /\ projects[i].id = projects[j].id
  /\ \E i, j \in 1..Len(persons) :
       /\ i # j
       /\ persons[i].name = persons[j].name
       /\ persons[i].project = persons[j].project
       /\ persons[i].activated /\ persons[j].activated

====
